---- MODULE Spec2Model ----
(***************************************************************************)
(* Model of src/server.js: five Express handlers that build a Firebase     *)
(* Cloud Messaging message from the JSON request body, hand it to          *)
(* admin.messaging().send through sendNotificationWithErrorHandling, and   *)
(* answer with a JSON result.                                              *)
(*                                                                         *)
(* JavaScript values are modelled as records [t, s, n, o]:                 *)
(*   t  the type tag ("undefined", "null", "string", "number", "boolean",  *)
(*      "object", and "throw" for an exception raised by an expression);   *)
(*   s  a string's text as a sequence of tokens: one token per digit,      *)
(*      sign or blank, and one token per run of other characters;          *)
(*   n  a number's integer value (a boolean's 0/1);                        *)
(*   o  an object's own properties, in insertion order, as <<key, value>>. *)
(* A handler runs from its start to its await in one step, and from the    *)
(* settling of the gateway promise to its response in one step, as the     *)
(* single-threaded event loop runs it.                                     *)
(***************************************************************************)
EXTENDS Integers, Sequences, FiniteSets, TLC

VARIABLES pc, intent, body, payload, message, sends, outcome, response

vars == <<pc, intent, body, payload, message, sends, outcome, response>>

\* Number of request slots that may be in flight at once.
NumDispatches == 2

Dispatches == 1..NumDispatches

-----------------------------------------------------------------------------
(* JavaScript values *)

Undefined == [t |-> "undefined", s |-> <<>>, n |-> 0, o |-> <<>>]
Null == [t |-> "null", s |-> <<>>, n |-> 0, o |-> <<>>]
Str(toks) == [t |-> "string", s |-> toks, n |-> 0, o |-> <<>>]
S(tok) == Str(<<tok>>)
Num(k) == [t |-> "number", s |-> <<>>, n |-> k, o |-> <<>>]
NaN == [t |-> "number", s |-> <<"NaN">>, n |-> 0, o |-> <<>>]
Bool(b) == [t |-> "boolean", s |-> <<>>, n |-> IF b THEN 1 ELSE 0, o |-> <<>>]
Obj(props) == [t |-> "object", s |-> <<>>, n |-> 0, o |-> props]
Thrown(msg) == [t |-> "throw", s |-> <<msg>>, n |-> 0, o |-> <<>>]

IsNaN(v) == v.t = "number" /\ v.s = <<"NaN">>

HasOwn(v, key) == v.t = "object" /\ \E i \in 1..Len(v.o) : v.o[i][1] = key

\* obj[key]: the own property, undefined when there is none.
Get(v, key) ==
  IF HasOwn(v, key)
  THEN v.o[CHOOSE i \in 1..Len(v.o) : v.o[i][1] = key][2]
  ELSE Undefined

\* ToBoolean, as used by !x, x || y and x ? y : z.
Truthy(v) ==
  CASE v.t \in {"undefined", "null"} -> FALSE
    [] v.t = "string" -> v.s # <<>>
    [] v.t = "number" -> ~IsNaN(v) /\ v.n # 0
    [] v.t = "boolean" -> v.n = 1
    [] OTHER -> TRUE

\* x || y
Or(x, y) == IF Truthy(x) THEN x ELSE y

DigitTok == <<"0", "1", "2", "3", "4", "5", "6", "7", "8", "9">>
DigitToks == {DigitTok[i] : i \in 1..Len(DigitTok)}
DigitVal(tok) == (CHOOSE i \in 1..Len(DigitTok) : DigitTok[i] = tok) - 1

\* Number.prototype.toString of a non-negative integer, as digit tokens.
RECURSIVE NatToks(_)
NatToks(k) ==
  IF k < 10 THEN <<DigitTok[k + 1]>>
  ELSE NatToks(k \div 10) \o <<DigitTok[(k % 10) + 1]>>

NumToks(v) ==
  IF IsNaN(v) THEN <<"NaN">>
  ELSE IF v.n < 0 THEN <<"-">> \o NatToks(0 - v.n)
  ELSE NatToks(v.n)

\* The abstract operation ToString (template literals, parseInt's argument).
\* An object goes through OrdinaryToPrimitive: an own, non-callable toString
\* is skipped, valueOf then yields no primitive, and a TypeError is thrown.
ToStr(v) ==
  CASE v.t = "undefined" -> S("undefined")
    [] v.t = "null" -> S("null")
    [] v.t = "string" -> v
    [] v.t = "number" -> Str(NumToks(v))
    [] v.t = "boolean" -> IF v.n = 1 THEN S("true") ELSE S("false")
    [] v.t = "object" ->
         IF HasOwn(v, "toString")
         THEN Thrown("Cannot convert object to primitive value")
         ELSE S("[object Object]")
    [] OTHER -> v

\* The method call x.toString().
toString(v) ==
  CASE v.t \in {"undefined", "null"} ->
         Thrown("Cannot read properties of undefined (reading 'toString')")
    [] v.t = "object" ->
         IF HasOwn(v, "toString")
         THEN Thrown("toString is not a function")
         ELSE S("[object Object]")
    [] OTHER -> ToStr(v)

\* A template literal: the parts are converted left to right, the first
\* exception wins, otherwise the texts are concatenated.
RECURSIVE Template(_)
Template(parts) ==
  IF parts = <<>> THEN Str(<<>>)
  ELSE LET h == ToStr(Head(parts))
           r == Template(Tail(parts))
       IN IF h.t = "throw" THEN h
          ELSE IF r.t = "throw" THEN r
          ELSE Str(h.s \o r.s)

RECURSIVE SkipBlanks(_)
SkipBlanks(toks) ==
  IF toks # <<>> /\ Head(toks) = " " THEN SkipBlanks(Tail(toks)) ELSE toks

\* Value of the longest prefix of digit tokens, acc being the value so far.
RECURSIVE DigitsValue(_, _)
DigitsValue(toks, acc) ==
  IF toks # <<>> /\ Head(toks) \in DigitToks
  THEN DigitsValue(Tail(toks), acc * 10 + DigitVal(Head(toks)))
  ELSE acc

\* A parse that raises on text that is not an integer from end to end.
parseIntStrict(v) ==
  LET str == ToStr(v) IN
  IF str.t = "throw" THEN str
  ELSE IF str.s # <<>> /\ \A i \in 1..Len(str.s) : str.s[i] \in DigitToks
  THEN Num(DigitsValue(str.s, 0))
  ELSE Thrown("order id is not an integer")

\* parseInt(x) in radix 10: ToString, leading blanks skipped, an optional
\* sign, then the longest run of digits; NaN when there is no digit.
parseInt(v) ==
  LET str == ToStr(v) IN
  IF str.t = "throw" THEN str
  ELSE LET t0 == SkipBlanks(str.s)
           neg == t0 # <<>> /\ Head(t0) = "-"
           t1 == IF t0 # <<>> /\ Head(t0) \in {"-", "+"} THEN Tail(t0) ELSE t0
       IN IF t1 = <<>> \/ Head(t1) \notin DigitToks THEN NaN
          ELSE IF neg THEN Num(0 - DigitsValue(t1, 0))
          ELSE Num(DigitsValue(t1, 0))

\* JSON.stringify: the text of a value; a property whose value is undefined
\* is left out, NaN is written null.
RECURSIVE JSONText(_)
RECURSIVE JSONProps(_, _)
JSONProps(props, first) ==
  IF props = <<>> THEN <<>>
  ELSE LET k == Head(props)[1]
           v == Head(props)[2]
       IN IF v.t \in {"undefined", "throw"} THEN JSONProps(Tail(props), first)
          ELSE (IF first THEN <<>> ELSE <<",">>)
               \o <<"\"", k, "\":">> \o JSONText(v)
               \o JSONProps(Tail(props), FALSE)

JSONText(v) ==
  CASE v.t = "string" -> <<"\"">> \o v.s \o <<"\"">>
    [] v.t = "number" -> IF IsNaN(v) THEN <<"null">> ELSE NumToks(v)
    [] v.t = "boolean" -> IF v.n = 1 THEN <<"true">> ELSE <<"false">>
    [] v.t = "null" -> <<"null">>
    [] v.t = "object" -> <<"{">> \o JSONProps(v.o, TRUE) \o <<"}">>
    [] OTHER -> <<>>

JSONstringify(v) == Str(JSONText(v))

\* The first exception raised while an object literal is evaluated: its
\* properties are evaluated in order, nested literals depth first.
RECURSIVE FirstThrown(_)
FirstThrown(v) ==
  IF v.t = "throw" THEN v
  ELSE IF v.t # "object" THEN Undefined
  ELSE LET hits == {i \in 1..Len(v.o) : FirstThrown(v.o[i][2]).t = "throw"}
       IN IF hits = {} THEN Undefined
          ELSE FirstThrown(v.o[CHOOSE i \in hits : \A j \in hits : i <= j][2])

\* new Date().toISOString(): a string; the instant itself is not modelled.
ISOString == S("<ISO-8601>")

-----------------------------------------------------------------------------
(* sendNotificationWithErrorHandling *)

\* The switch with the unregistered-token case answering 404 instead of 410.
statusCodeNotFound(error) ==
  LET code == Get(error, "code") IN
  CASE code = S("messaging/invalid-argument") -> 400
    [] code = S("messaging/invalid-registration-token") -> 400
    [] code = S("messaging/registration-token-not-registered") -> 404
    [] code = S("messaging/mismatched-credential") -> 403
    [] OTHER -> 500

\* The switch on error.code: the status code of a failed send.
statusCode(error) ==
  LET code == Get(error, "code") IN
  CASE code = S("messaging/invalid-argument") -> 400
    [] code = S("messaging/invalid-registration-token") -> 400
    [] code = S("messaging/registration-token-not-registered") -> 410
    [] code = S("messaging/mismatched-credential") -> 403
    [] OTHER -> 500

\* The switch on error.code: the message shown to the caller.
userMessage(error) ==
  LET code == Get(error, "code") IN
  CASE code = S("messaging/invalid-argument") ->
         S("Invalid argument - check the payload structure.")
    [] code = S("messaging/invalid-registration-token") ->
         S("Invalid FCM token. Please verify the device token.")
    [] code = S("messaging/registration-token-not-registered") ->
         S("The FCM token is no longer registered. Device must re-register.")
    [] code = S("messaging/mismatched-credential") ->
         S("Token does not belong to this Firebase project.")
    [] OTHER -> Or(Get(error, "message"), S("Unexpected error sending FCM message."))

\* What the function returns once the gateway promise has settled:
\* out.ok with the gateway's response, or ~out.ok with the error it raised.
sendNotificationWithErrorHandling(out) ==
  IF out.ok
  THEN Obj(<< <<"success", Bool(TRUE)>>, <<"response", out.value>> >>)
  ELSE Obj(<< <<"success", Bool(FALSE)>>,
              <<"statusCode", Num(statusCode(out.value))>>,
              <<"error", Obj(<< <<"code", Get(out.value, "code")>>,
                                <<"message", userMessage(out.value)>> >>)>> >>)

-----------------------------------------------------------------------------
(* The messages the handlers build from req.body (b) *)

BasicMessage(b) ==
  Obj(<< <<"token", b.token>>,
         <<"notification", Obj(<< <<"title", b.title>>, <<"body", b.body>>,
                                  <<"sound", S("default")>> >>)>>,
         <<"data", Obj(<< <<"notification_type", S("test_basic")>>,
                          <<"order_no", Str(<<"TEST-", "1", "2", "3">>)>>,
                          <<"click_action", S("FLUTTER_NOTIFICATION_CLICK")>> >>)>>,
         <<"apns", Obj(<< <<"payload", Obj(<< <<"aps", Obj(<<
              <<"alert", Obj(<< <<"title", b.title>>, <<"body", b.body>> >>)>>,
              <<"sound", S("default")>> >>)>> >>)>> >>)>>,
         <<"android", Obj(<< <<"priority", S("high")>> >>)>> >>)

BackgroundPayload(b) ==
  Obj(<< <<"notification_type", S("order_delivered")>>,
         <<"order_no", Template(<<b.orderId>>)>>,
         <<"updated_on", ISOString>>,
         <<"payload", Obj(<<
              <<"updated_by", IF Truthy(b.updated_by) THEN toString(b.updated_by)
                              ELSE Str(<<>>)>>,
              <<"delivery_status", Or(b.delivery_status, S("UNKNOWN"))>>,
              <<"custom_data", Or(b.custom_data, S("N/A"))>>,
              <<"orderId", b.orderId>> >>)>> >>)

\* The android hint taking the caller's priority when one is supplied.
BackgroundAndroidFromCaller(b) ==
  Obj(<< <<"priority", Or(b.priority, S("high"))>> >>)

BackgroundAndroid(b) == Obj(<< <<"priority", S("high")>> >>)

BackgroundMessage(b) ==
  Obj(<< <<"token", b.token>>,
         <<"data", Obj(<< <<"title", b.title>>,
                          <<"body", b.body>>,
                          <<"notification_type", S("order_delivered")>>,
                          <<"order_no", Template(<<b.orderId>>)>>,
                          <<"delivery_status", Or(b.delivery_status, S("UNKNOWN"))>>,
                          <<"updated_by", IF Truthy(b.updated_by)
                                          THEN toString(b.updated_by)
                                          ELSE Str(<<>>)>>,
                          <<"payload", JSONstringify(BackgroundPayload(b))>>,
                          <<"click_action", S("FLUTTER_NOTIFICATION_CLICK")>> >>)>>,
         <<"apns", Obj(<<
              <<"payload", Obj(<< <<"aps", Obj(<<
                   <<"alert", Obj(<< <<"title", b.title>>, <<"body", b.body>> >>)>>,
                   <<"sound", S("default")>>,
                   <<"badge", Num(1)>>,
                   <<"content-available", Num(1)>> >>)>> >>)>>,
              <<"headers", Obj(<< <<"apns-priority", Str(<<"5">>)>> >>)>> >>)>>,
         <<"android", BackgroundAndroid(b)>> >>)

\* The validation with the order_id test left out.
SilentMissingSkipsOrderId(b) ==
  \/ ~Truthy(b.token)
  \/ ~Truthy(b.delivery_status)
  \/ ~Truthy(b.updated_by)

\* The validation of /send/silent: true when the request is rejected.
SilentMissing(b) ==
  \/ ~Truthy(b.token)
  \/ ~Truthy(b.order_id)
  \/ ~Truthy(b.delivery_status)
  \/ ~Truthy(b.updated_by)

safeDriverId(b) ==
  IF Truthy(b.driver_id) THEN toString(b.driver_id) ELSE toString(b.updated_by)

payloadPayload(b) ==
  Obj(<< <<"driver_id", safeDriverId(b)>>,
         <<"delivery_status", b.delivery_status>>,
         <<"custom_data", Or(b.custom_data, S("status update"))>>,
         <<"status", b.delivery_status>>,
         <<"orderId", parseInt(b.order_id)>>,
         <<"delivery_time", Or(b.delivery_time, Null)>>,
         <<"delivery_distance", Or(b.delivery_distance, Null)>>,
         <<"ready_time", Or(b.ready_time, Null)>>,
         <<"restaurant_name", Or(b.restaurant_name, Null)>> >>)

pickupPayload(b) ==
  Or(b.pickup, Obj(<< <<"lat", Num(0)>>, <<"lng", Num(0)>>,
                      <<"name", S("Pickup Location")>> >>))

dropoffPayload(b) ==
  Or(b.dropoff, Obj(<< <<"lat", Num(0)>>, <<"lng", Num(0)>>,
                       <<"name", S("Dropoff Location")>> >>))

payloadModel(b) ==
  Obj(<< <<"title", S("Order Update")>>,
         <<"description", Template(<<S("Order #"), b.order_id,
                                     S(" status changed to "), b.delivery_status>>)>>,
         <<"model_type", S("order")>>,
         <<"model_id", parseInt(b.order_id)>>,
         <<"test_mode", Bool(FALSE)>>,
         <<"notification_type", S("silent_update")>>,
         <<"order_no", toString(b.order_id)>>,
         <<"updated_on", ISOString>>,
         <<"payload", payloadPayload(b)>>,
         <<"pickup", pickupPayload(b)>>,
         <<"dropoff", dropoffPayload(b)>> >>)

SilentMessage(b) ==
  Obj(<< <<"token", b.token>>,
         <<"data", Obj(<< <<"action", S("FLUTTER_NOTIFICATION_CLICK")>>,
                          <<"silent", S("false")>>,
                          <<"order_id", toString(b.order_id)>>,
                          <<"notification_type", S("silent_update")>>,
                          <<"payload", JSONstringify(payloadModel(b))>>,
                          <<"user_id", toString(b.updated_by)>>,
                          <<"controller", S("order_controller")>>,
                          <<"timestamp", ISOString>>,
                          <<"background_update", S("false")>> >>)>>,
         <<"apns", Obj(<< <<"payload", Obj(<< <<"aps", Obj(<<
              <<"alert", Obj(<<
                   <<"title", Template(<<S("(package) Order #"), b.order_id,
                                         S(" "), b.delivery_status>>)>>,
                   <<"body", Template(<<S("Your order from "), b.restaurant_name,
                                        S(" is now "), b.delivery_status,
                                        S(". Estimated delivery:")>>)>> >>)>>,
              <<"sound", S("offer_notification.caf")>> >>)>> >>)>> >>)>> >>)

\* The exception, if any, raised between the validation and the send:
\* payloadPayload, then payloadModel, then message are evaluated in order.
SilentThrown(b) ==
  FirstThrown(Obj(<< <<"payloadPayload", payloadPayload(b)>>,
                     <<"payloadModel", payloadModel(b)>>,
                     <<"message", SilentMessage(b)>> >>))

SoundMessage(b) ==
  Obj(<< <<"token", b.token>>,
         <<"notification", Obj(<< <<"title", b.title>>, <<"body", b.body>>,
                                  <<"sound", S("default")>> >>)>>,
         <<"data", Obj(<< <<"notification_type", S("sound_test")>>,
                          <<"order_no", Str(<<"SOUND-", "7", "8", "9">>)>> >>)>>,
         <<"apns", Obj(<< <<"payload", Obj(<< <<"aps", Obj(<<
              <<"alert", Obj(<< <<"title", b.title>>, <<"body", b.body>> >>)>>,
              <<"sound", S("default")>>,
              <<"badge", Num(5)>> >>)>> >>)>> >>)>>,
         <<"android", Obj(<< <<"priority", S("high")>> >>)>> >>)

AssignmentPayload(b) ==
  Obj(<< <<"notification_type", S("order_assigned")>>,
         <<"order_no", Template(<<b.order_id>>)>>,
         <<"updated_on", ISOString>>,
         <<"payload", Obj(<< <<"driver_id", toString(b.assigned_rider_id)>>,
                             <<"delivery_status", b.delivery_status>>,
                             <<"status", b.delivery_status>>,
                             <<"orderId", b.order_id>> >>)>> >>)

AssignmentMessage(b) ==
  Obj(<< <<"token", b.token>>,
         <<"data", Obj(<< <<"notification_type", S("order_assigned")>>,
                          <<"order_no", Template(<<b.order_id>>)>>,
                          <<"delivery_status", b.delivery_status>>,
                          <<"assigned_rider_id", toString(b.assigned_rider_id)>>,
                          <<"payload", JSONstringify(AssignmentPayload(b))>>,
                          <<"click_action", S("FLUTTER_NOTIFICATION_CLICK")>> >>)>>,
         <<"notification", Obj(<<
              <<"title", S("(package) New Order Assigned")>>,
              <<"body", Template(<<S("You have been assigned order #"),
                                   b.order_id, S(".")>>)>> >>)>>,
         <<"apns", Obj(<< <<"payload", Obj(<< <<"aps", Obj(<<
              <<"alert", Obj(<<
                   <<"title", S("(package) New Order Assigned")>>,
                   <<"body", Template(<<S("You have been assigned order #"),
                                        b.order_id, S(".")>>)>> >>)>>,
              <<"sound", S("default")>> >>)>> >>)>> >>)>>,
         <<"android", Obj(<< <<"priority", S("high")>>,
                             <<"notification", Obj(<< <<"sound", S("default")>> >>)>> >>)>> >>)

BackgroundThrown(b) ==
  FirstThrown(Obj(<< <<"payload", BackgroundPayload(b)>>,
                     <<"message", BackgroundMessage(b)>> >>))

AssignmentThrown(b) ==
  FirstThrown(Obj(<< <<"payload", AssignmentPayload(b)>>,
                     <<"message", AssignmentMessage(b)>> >>))

-----------------------------------------------------------------------------
(* Request bodies and gateway outcomes *)

Fields ==
  {"token", "title", "body", "orderId", "order_id", "delivery_status",
   "updated_by", "custom_data", "driver_id", "delivery_time",
   "delivery_distance", "ready_time", "restaurant_name", "pickup", "dropoff",
   "assigned_rider_id", "live_activity_token", "priority"}

\* req.body after bodyParser.json(): a field the JSON text lacks is undefined.
MakeBody(r) == [f \in Fields |-> IF f \in DOMAIN r THEN r[f] ELSE Undefined]

\* The JSON object {"toString": 1}: its own toString is not callable.
BadObj == Obj(<< <<"toString", Num(1)>> >>)

TokenVals == {Undefined, Str(<<>>), S("T1")}
OrderIdVals ==
  {Undefined, Str(<<"5", "5">>), Str(<<"TEST-", "1", "2", "3">>),
   Str(<<"5", "5", "abc">>), Str(<<" ", "-", "7">>), Num(55), Num(0), BadObj}
Place == Obj(<< <<"lat", Num(9)>>, <<"lng", Num(38)>>, <<"name", S("Bole")>> >>)

BasicBodies ==
  {MakeBody(r) : r \in [token : TokenVals,
                        title : {Undefined, S("Hello"), Num(7)},
                        body : {Undefined, S("World")}]}

BackgroundBodies ==
  {MakeBody(r) : r \in [token : TokenVals,
                        title : {Undefined, S("Hello"), Num(7)},
                        body : {Undefined, S("World")},
                        orderId : {Undefined, Str(<<"5", "5">>), Num(55), BadObj},
                        delivery_status : {Undefined, S("DELIVERED"), Num(3)},
                        updated_by : {Undefined, S("sys"), Num(7), BadObj},
                        custom_data : {Undefined, Obj(<< <<"k", Bool(TRUE)>> >>)},
                        priority : {Undefined, S("normal")}]}

SilentBodies ==
  {MakeBody(r) : r \in [token : TokenVals,
                        order_id : OrderIdVals,
                        delivery_status : {Undefined, S("DELIVERED"), BadObj},
                        updated_by : {Undefined, S("sys"), Num(7), BadObj},
                        driver_id : {Undefined, S("d9"), BadObj},
                        custom_data : {Undefined, S("note")},
                        restaurant_name : {Undefined, S("Cafe")},
                        delivery_time : {Undefined, Num(30)},
                        pickup : {Undefined, Place}]}

AssignmentBodies ==
  {MakeBody(r) : r \in [token : TokenVals,
                        order_id : {Undefined, Str(<<"5", "5">>), Num(55), BadObj},
                        delivery_status : {Undefined, S("ASSIGNED"), Num(3)},
                        assigned_rider_id : {Undefined, Null, S("r1"), Num(7), BadObj},
                        live_activity_token : {Undefined, S("L1")}]}

\* What admin.messaging().send resolves with: the message name.
GatewayResponses == {S("projects/demo/messages/1")}

GatewayError(code, msg) == Obj(<< <<"code", code>>, <<"message", msg>> >>)

\* What admin.messaging().send rejects with: the codes the switch knows, a
\* code it does not know and no code at all, the last two with and without
\* a message text.
GatewayErrors ==
  {GatewayError(S(c), S("rejected")) :
     c \in {"messaging/invalid-argument", "messaging/invalid-registration-token",
            "messaging/registration-token-not-registered",
            "messaging/mismatched-credential"}}
  \cup {GatewayError(c, m) : c \in {S("messaging/internal-error"), Undefined},
                             m \in {S("socket hang up"), Str(<<>>)}}

-----------------------------------------------------------------------------
(* Responses *)

\* res.status(http).json(json); res.json(json) answers with status 200.
Res(http, json) == [http |-> http, json |-> json]

NoResponse == Res(0, Undefined)
NoOutcome == [ok |-> FALSE, value |-> Undefined]

\* The failure path answering through res.json alone, with the default status.
FailureResponseDefaultStatus(result) == Res(200, result)

\* if (!result.success) return res.status(result.statusCode).json(result)
FailureResponse(result) == Res(Get(result, "statusCode").n, result)

SilentMissingResponse ==
  Res(400, Obj(<< <<"success", Bool(FALSE)>>,
                  <<"message", S("Missing required fields: token, order_id, delivery_status, updated_by")>> >>))

\* The catch block of /send/silent.
SilentCatchResponse(error) ==
  Res(500, Obj(<< <<"success", Bool(FALSE)>>,
                  <<"message", S("Internal Server Error")>>,
                  <<"error", Str(error.s)>> >>))

\* The catch block of /send/assignment.
AssignmentCatchResponse(error) ==
  Res(500, Obj(<< <<"success", Bool(FALSE)>>,
                  <<"message", S("Failed to send notification")>>,
                  <<"error", Str(error.s)>> >>))

\* The part of a handler that runs after the await: i the route, b its
\* req.body, pl the payload object it built, result what
\* sendNotificationWithErrorHandling returned.
Respond(i, b, pl, result) ==
  IF ~Truthy(Get(result, "success")) THEN FailureResponse(result)
  ELSE CASE i = "basic" ->
              Res(200, Obj(<< <<"success", Bool(TRUE)>>,
                              <<"message", S("Basic notification sent successfully")>>,
                              <<"response", Get(result, "response")>> >>))
         [] i = "background" ->
              Res(200, Obj(<< <<"success", Bool(TRUE)>>,
                              <<"message", S("Background notification sent successfully")>>,
                              <<"response", Get(result, "response")>> >>))
         [] i = "silent" ->
              Res(200, Obj(<< <<"success", Bool(TRUE)>>,
                              <<"message", S("Silent notification sent successfully")>>,
                              <<"order_id", b.order_id>>,
                              <<"sound_used", S("offer_notification.caf")>>,
                              <<"delivery_status", b.delivery_status>>,
                              <<"status_code", Num(200)>>,
                              <<"payload", pl>>,
                              <<"updated_by", b.updated_by>>,
                              <<"updated_at", ISOString>> >>))
         [] i = "sound" ->
              Res(200, Obj(<< <<"success", Bool(TRUE)>>,
                              <<"message", S("Notification with sound sent successfully")>>,
                              <<"response", Get(result, "response")>> >>))
         [] OTHER ->
              Res(200, Obj(<< <<"success", Bool(TRUE)>>,
                              <<"message", S("Assignment notification sent successfully")>>,
                              <<"order_id", b.order_id>>,
                              <<"delivery_status", b.delivery_status>>,
                              <<"assigned_rider_id", b.assigned_rider_id>>,
                              <<"status_code", Num(200)>>,
                              <<"payload", pl>>,
                              <<"to_user_id", b.assigned_rider_id>>,
                              <<"updated_at", ISOString>> >>))

-----------------------------------------------------------------------------
(* The state machine *)

Init ==
  /\ pc = [d \in Dispatches |-> "idle"]
  /\ intent = [d \in Dispatches |-> "none"]
  /\ body = [d \in Dispatches |-> MakeBody(<<>>)]
  /\ payload = [d \in Dispatches |-> Undefined]
  /\ message = [d \in Dispatches |-> Undefined]
  /\ sends = [d \in Dispatches |-> 0]
  /\ outcome = [d \in Dispatches |-> NoOutcome]
  /\ response = [d \in Dispatches |-> NoResponse]

\* The handler takes the request: const {...} = req.body.
Accept(d, i, b) ==
  /\ intent' = [intent EXCEPT ![d] = i]
  /\ body' = [body EXCEPT ![d] = b]

\* The handler reaches `await sendNotificationWithErrorHandling(message)`:
\* admin.messaging().send(message) has been called once and is pending.
Await(d, pl, msg) ==
  /\ pc' = [pc EXCEPT ![d] = "awaiting"]
  /\ payload' = [payload EXCEPT ![d] = pl]
  /\ message' = [message EXCEPT ![d] = msg]
  /\ sends' = [sends EXCEPT ![d] = @ + 1]
  /\ UNCHANGED <<outcome, response>>

\* The handler answers before any send.
Answer(d, res) ==
  /\ pc' = [pc EXCEPT ![d] = "done"]
  /\ response' = [response EXCEPT ![d] = res]
  /\ UNCHANGED <<payload, message, sends, outcome>>

\* An exception leaves an async handler that has no try/catch: its promise
\* is rejected, nobody handles it and no response is written.
Escape(d) ==
  /\ pc' = [pc EXCEPT ![d] = "crashed"]
  /\ UNCHANGED <<payload, message, sends, outcome, response>>

SendBasic(d, Bodies) ==
  /\ pc[d] = "idle"
  /\ \E b \in Bodies :
       /\ Accept(d, "basic", b)
       /\ Await(d, Undefined, BasicMessage(b))

SendBackground(d, Bodies) ==
  /\ pc[d] = "idle"
  /\ \E b \in Bodies :
       /\ Accept(d, "background", b)
       /\ IF BackgroundThrown(b).t = "throw"
          THEN Escape(d)
          ELSE Await(d, BackgroundPayload(b), BackgroundMessage(b))

SendSilent(d, Bodies) ==
  /\ pc[d] = "idle"
  /\ \E b \in Bodies :
       /\ Accept(d, "silent", b)
       /\ IF SilentMissing(b) THEN Answer(d, SilentMissingResponse)
          ELSE IF SilentThrown(b).t = "throw"
          THEN Answer(d, SilentCatchResponse(SilentThrown(b)))
          ELSE Await(d, payloadModel(b), SilentMessage(b))

SendSound(d, Bodies) ==
  /\ pc[d] = "idle"
  /\ \E b \in Bodies :
       /\ Accept(d, "sound", b)
       /\ Await(d, Undefined, SoundMessage(b))

SendAssignment(d, Bodies) ==
  /\ pc[d] = "idle"
  /\ \E b \in Bodies :
       /\ Accept(d, "assignment", b)
       /\ IF AssignmentThrown(b).t = "throw"
          THEN Answer(d, AssignmentCatchResponse(AssignmentThrown(b)))
          ELSE Await(d, AssignmentPayload(b), AssignmentMessage(b))

\* The destructured fields kept in module-level variables: a continuation
\* then reads those of whichever request is in flight.
SharedBody(d) == body[CHOOSE e \in Dispatches : pc[e] = "awaiting"]

\* The request body the continuation of dispatch d closes over.
ReqBody(d) == body[d]

\* The gateway promise of dispatch d settles with out; the handler resumes
\* and answers.
Settle(d, out) ==
  /\ outcome' = [outcome EXCEPT ![d] = out]
  /\ pc' = [pc EXCEPT ![d] = "done"]
  /\ response' = [response EXCEPT ![d] =
       Respond(intent[d], ReqBody(d), payload[d],
               sendNotificationWithErrorHandling(out))]
  /\ UNCHANGED <<intent, body, payload, message, sends>>

GatewayResolve(d, Responses) ==
  /\ pc[d] = "awaiting"
  /\ \E r \in Responses : Settle(d, [ok |-> TRUE, value |-> r])

\* A rejection of the unknown class answered by sending the message again.
GatewayRejectRetry(d, Errors) ==
  /\ pc[d] = "awaiting"
  /\ \E e \in Errors :
       IF statusCode(e) = 500
       THEN /\ sends' = [sends EXCEPT ![d] = @ + 1]
            /\ UNCHANGED <<pc, intent, body, payload, message, outcome, response>>
       ELSE Settle(d, [ok |-> FALSE, value |-> e])

GatewayReject(d, Errors) ==
  /\ pc[d] = "awaiting"
  /\ \E e \in Errors : Settle(d, [ok |-> FALSE, value |-> e])

\* One request at a time, over the whole input domain.
Next ==
  \/ SendBasic(1, BasicBodies)
  \/ SendBackground(1, BackgroundBodies)
  \/ SendSilent(1, SilentBodies)
  \/ SendSound(1, BasicBodies)
  \/ SendAssignment(1, AssignmentBodies)
  \/ GatewayResolve(1, GatewayResponses)
  \/ GatewayReject(1, GatewayErrors)

Spec == Init /\ [][Next]_vars

-----------------------------------------------------------------------------
(* Concurrent requests, over a small input domain *)

ConcBasicBodies == {MakeBody([token |-> S("T1"), title |-> S("Hello")])}

ConcBackgroundBodies ==
  {MakeBody([token |-> S("T1"), orderId |-> Num(55), updated_by |-> u]) :
     u \in {S("sys"), BadObj}}

ConcSilentBodies ==
  {MakeBody([token |-> S("T1"), order_id |-> o, delivery_status |-> S("DELIVERED"),
             updated_by |-> S("sys")]) :
     o \in {Undefined, Str(<<"5", "5">>), Str(<<"TEST-", "1", "2", "3">>)}}

ConcAssignmentBodies ==
  {MakeBody([token |-> S("T1"), order_id |-> Num(55), assigned_rider_id |-> a]) :
     a \in {Undefined, Num(7)}}

ConcErrors ==
  {GatewayError(S("messaging/registration-token-not-registered"), S("rejected")),
   GatewayError(Undefined, S("socket hang up"))}

NextConc ==
  \E d \in Dispatches :
    \/ SendBasic(d, ConcBasicBodies)
    \/ SendBackground(d, ConcBackgroundBodies)
    \/ SendSilent(d, ConcSilentBodies)
    \/ SendSound(d, ConcBasicBodies)
    \/ SendAssignment(d, ConcAssignmentBodies)
    \/ GatewayResolve(d, GatewayResponses)
    \/ GatewayReject(d, ConcErrors)

SpecConc == Init /\ [][NextConc]_vars

-----------------------------------------------------------------------------
(* Properties *)

Success(d) == Get(response[d].json, "success")

\* A field that is missing or empty: absent from the JSON, null or "".
IsMissing(v) == v.t \in {"undefined", "null"} \/ v = Str(<<>>)

SilentRequired == {"token", "order_id", "delivery_status", "updated_by"}

\* Dispatch d handed a message to the gateway and the gateway failed.
GatewayFailed(d) == pc[d] = "done" /\ sends[d] >= 1 /\ ~outcome[d].ok

DataFields(d) == Get(message[d], "data").o

\* C1: a /send/silent request with one of token, order_id, delivery_status,
\* updated_by missing or empty is answered 400 with success false, and the
\* gateway send is not invoked during that dispatch.
C1_SilentMissingFieldRejected ==
  \A d \in Dispatches :
    (intent[d] = "silent" /\ \E f \in SilentRequired : IsMissing(body[d][f]))
      => /\ pc[d] = "done"
         /\ response[d].http = 400
         /\ Success(d) = Bool(FALSE)
         /\ sends[d] = 0
         /\ message[d] = Undefined

C1_Witness ==
  \E d \in Dispatches :
    /\ intent[d] = "silent"
    /\ body[d].order_id = Undefined
    /\ \A f \in SilentRequired \ {"order_id"} : Truthy(body[d][f])
    /\ pc[d] = "done"
    /\ response[d].http = 400
    /\ sends[d] = 0

\* C2: on every route, a request whose device token is missing is answered
\* 400 and the gateway send is never invoked for it.
C2_NoSendWithoutToken ==
  \A d \in Dispatches :
    (intent[d] # "none" /\ IsMissing(body[d].token))
      => /\ sends[d] = 0
         /\ pc[d] = "done"
         /\ response[d].http = 400

\* The status the taxonomy fixes for a gateway error code.
TaxonomyStatus(code) ==
  IF code \in {S("messaging/invalid-argument"),
               S("messaging/invalid-registration-token")} THEN 400
  ELSE IF code = S("messaging/registration-token-not-registered") THEN 410
  ELSE IF code = S("messaging/mismatched-credential") THEN 403
  ELSE 500

\* C3: a failed gateway send is answered with success false and the status
\* its error code is classified into: invalid-argument and
\* invalid-registration-token 400, registration-token-not-registered 410,
\* mismatched-credential 403, any other code or none 500.
C3_FailureClassified ==
  \A d \in Dispatches :
    GatewayFailed(d)
      => LET st == TaxonomyStatus(Get(outcome[d].value, "code")) IN
         /\ response[d].http = st
         /\ Get(response[d].json, "statusCode") = Num(st)
         /\ Success(d) = Bool(FALSE)

C3_Witness ==
  \E d \in Dispatches :
    /\ GatewayFailed(d)
    /\ Get(outcome[d].value, "code") = S("messaging/registration-token-not-registered")
    /\ response[d].http = 410

\* C4: every result has success true exactly when its status is in
\* 200..299, and a status code carried in the result body is the HTTP
\* status of the response.
C4_SuccessIffStatus2xx ==
  \A d \in Dispatches :
    pc[d] = "done"
      => /\ Success(d) \in {Bool(TRUE), Bool(FALSE)}
         /\ Success(d) = Bool(TRUE) <=> response[d].http \in 200..299
         /\ HasOwn(response[d].json, "statusCode")
              => Get(response[d].json, "statusCode") = Num(response[d].http)
         /\ HasOwn(response[d].json, "status_code")
              => Get(response[d].json, "status_code") = Num(response[d].http)

C4_Witness ==
  \E d \in Dispatches :
    /\ GatewayFailed(d)
    /\ intent[d] = "silent"
    /\ Success(d) = Bool(FALSE)
    /\ response[d].http = 403

\* C5: every dispatch ends with a result: none crashes or ends without
\* one, and an exception raised while the payload is built is answered with
\* a status-500 failure result.
C5_EveryDispatchAnswers ==
  \A d \in Dispatches :
    /\ pc[d] # "crashed"
    /\ pc[d] = "done" => response[d] # NoResponse
    /\ (intent[d] # "none" /\ sends[d] = 0 /\ ~IsMissing(body[d].token))
         => pc[d] = "done" /\ response[d].http \in {400, 500}

\* C6: a dispatch whose validation and payload construction succeed makes
\* exactly one gateway send, and no dispatch makes more than one: a failed
\* send, whatever its error code, is not sent again.
C6_ExactlyOneSend ==
  \A d \in Dispatches :
    /\ sends[d] <= 1
    /\ message[d] # Undefined => sends[d] = 1
    /\ sends[d] = 1 => message[d] # Undefined /\ pc[d] \in {"awaiting", "done"}
    /\ (pc[d] = "done" /\ outcome[d] # NoOutcome) => sends[d] = 1

C6_Witness ==
  \E d \in Dispatches :
    /\ GatewayFailed(d)
    /\ response[d].http = 500
    /\ sends[d] = 1

\* C7: every value in the data fields of a message handed to the gateway
\* is a string.
C7_DataFieldsAreStrings ==
  \A d \in Dispatches :
    sends[d] >= 1
      => \A i \in 1..Len(DataFields(d)) : DataFields(d)[i][2].t = "string"

\* The orderId inside the nested payload of a /send/silent dispatch.
NestedOrderId(d) == Get(Get(payload[d], "payload"), "orderId")

\* The text of the order id a /send/silent request supplied.
OrderIdText(d) == ToStr(body[d].order_id).s

RECURSIVE LeadingDigits(_)
LeadingDigits(toks) ==
  IF toks # <<>> /\ Head(toks) \in DigitToks
  THEN <<Head(toks)>> \o LeadingDigits(Tail(toks))
  ELSE <<>>

\* The order id's text without its leading blanks and sign.
RECURSIVE Unsigned(_)
Unsigned(toks) ==
  IF toks # <<>> /\ Head(toks) = " " THEN Unsigned(Tail(toks))
  ELSE IF toks # <<>> /\ Head(toks) \in {"-", "+"} THEN Tail(toks)
  ELSE toks

\* The other inputs of a /send/silent build are plain strings or absent.
PlainSilentRequest(d) ==
  /\ intent[d] = "silent"
  /\ body[d].token.t = "string" /\ body[d].token.s # <<>>
  /\ body[d].delivery_status.t = "string" /\ body[d].delivery_status.s # <<>>
  /\ body[d].updated_by.t = "string" /\ body[d].updated_by.s # <<>>
  /\ body[d].driver_id.t \in {"undefined", "string"}
  /\ body[d].order_id.t = "string" /\ body[d].order_id.s # <<>>

ApnsUrgency(p) == IF p = Str(<<"1", "0">>) THEN "high" ELSE "normal"

AndroidPriority(d) == Get(Get(message[d], "android"), "priority")
ApnsPriority(d) == Get(Get(Get(message[d], "apns"), "headers"), "apns-priority")

\* C9 as stated: a /send/background message carries priority high on
\* every platform hint it sets, the android one and the apns one.
C9_HighOnEveryPlatform ==
  \A d \in Dispatches :
    (intent[d] = "background" /\ sends[d] >= 1)
      => /\ AndroidPriority(d) = S("high")
         /\ ApnsUrgency(ApnsPriority(d)) = "high"

\* C9 as amended: a /send/background message carries android priority
\* high whatever the caller supplied, and its apns-priority header is 5.
C9_AndroidHighApnsFive ==
  \A d \in Dispatches :
    (intent[d] = "background" /\ sends[d] >= 1)
      => /\ AndroidPriority(d) = S("high")
         /\ ApnsPriority(d) = Str(<<"5">>)

C9_Witness ==
  \E d \in Dispatches :
    /\ intent[d] = "background"
    /\ body[d].priority = S("normal")
    /\ sends[d] = 1
    /\ AndroidPriority(d) = S("high")

\* The response of a dispatch of route i with body b that runs alone and
\* whose gateway send, if it makes one, settles with out.
Alone(i, b, out) ==
  LET result == sendNotificationWithErrorHandling(out) IN
  CASE i = "basic" -> Respond(i, b, Undefined, result)
    [] i = "sound" -> Respond(i, b, Undefined, result)
    [] i = "background" ->
         IF BackgroundThrown(b).t = "throw" THEN NoResponse
         ELSE Respond(i, b, BackgroundPayload(b), result)
    [] i = "silent" ->
         IF SilentMissing(b) THEN SilentMissingResponse
         ELSE IF SilentThrown(b).t = "throw" THEN SilentCatchResponse(SilentThrown(b))
         ELSE Respond(i, b, payloadModel(b), result)
    [] OTHER ->
         IF AssignmentThrown(b).t = "throw"
         THEN AssignmentCatchResponse(AssignmentThrown(b))
         ELSE Respond(i, b, AssignmentPayload(b), result)

Local(d) ==
  <<pc[d], intent[d], body[d], payload[d], message[d], sends[d], outcome[d],
    response[d]>>

\* C10: in every interleaving, a step of one dispatch leaves the state of
\* every other dispatch as it was, and the response a dispatch ends with
\* is the one its own body and its own gateway outcome give when it runs
\* alone.
C10_DispatchesIndependent ==
  [][\A d \in Dispatches :
       /\ Local(d)' # Local(d)
            => \A e \in Dispatches \ {d} : Local(e)' = Local(e)
       /\ pc'[d] = "done"
            => response'[d] = Alone(intent'[d], body'[d], outcome'[d])]_vars

C10_Witness ==
  \E d, e \in Dispatches :
    /\ d # e
    /\ pc[d] = "done" /\ sends[d] = 1 /\ Success(d) = Bool(TRUE)
    /\ intent[d] = "silent"
    /\ pc[e] = "awaiting"
    /\ intent[e] = "silent"
    /\ body[e] # body[d]

====
